---- MODULE Spec2Model ----
(***************************************************************************)
(* A model of postgres/icelandic_fts.c: the binary dictionary loader, the  *)
(* word and bigram binary searches, the candidate resolver, the bigram     *)
(* disambiguator, the stopword filter, the tokenizer and the three SQL     *)
(* entry points (icelandic_lexize, icelandic_fts_lemmas,                   *)
(* icelandic_fts_query) of one PostgreSQL backend process.                 *)
(*                                                                         *)
(* Conventions.                                                            *)
(*  - A C string is a sequence of code points.  UTF-8 preserves code point *)
(*    order under memcmp and a byte prefix of valid UTF-8 is a code point  *)
(*    prefix, so the comparators are modelled on code points.              *)
(*  - A C array is a sequence; C index i is element i + 1.                 *)
(*  - A pointer that may be NULL is a sequence of length 0 (NULL) or 1.    *)
(*  - An (offset, length) view into the string pool is the string it       *)
(*    denotes.                                                             *)
(***************************************************************************)
EXTENDS Integers, Sequences, FiniteSets, TLC

VARIABLES
    file,          \* the data file on disk that lemma_is_load_binary reads
    lemma_is_bin,  \* static LemmaIsBinary *lemma_is_bin (NULL = <<>>)
    loads,         \* number of calls of lemma_is_load_binary so far
    args,          \* the arguments of the call being answered
    ret            \* what that call returned (or the error it raised)

vars == <<file, lemma_is_bin, loads, args, ret>>

NULL == <<>>

----------------------------------------------------------------------------
(* Bounds of the model.                                                    *)

MaxWordLen == 2      \* longest string in a searched word index
MaxWords == 3        \* most entries of a searched word index
MaxBigrams == 2      \* most entries of a searched bigram index
MaxCount == 1        \* largest table count in a header given to the loader
MaxPool == 2         \* largest string pool size in such a header
MaxLoads == 2        \* most load attempts in one backend's run
MaxTextLen == 4      \* longest text given to a SQL call
MaxCands == 2        \* most candidates of a disambiguated token
MaxNeighbours == 1   \* most candidates of its previous (next) token
MaxInputLen == 4     \* longest code point sequence given to the tokenizer
MaxHighBits == 2     \* largest value of bits 10..30 of a decoded entry, but for all ones

----------------------------------------------------------------------------
(* Strings.                                                                *)

Max(x, y) == IF x > y THEN x ELSE y
Min(x, y) == IF x < y THEN x ELSE y

RECURSIVE StringsUpTo(_, _)
StringsUpTo(alphabet, n) ==
    IF n = 0 THEN {<<>>}
    ELSE LET shorter == StringsUpTo(alphabet, n - 1)
         IN  shorter \cup {Append(s, c) : s \in shorter, c \in alphabet}

(* lowerstr(): the database locale's lower-casing.  ASCII capitals and the *)
(* Latin-1 capitals (which hold the Icelandic ones) move down by 32.       *)
LowerChar(c) ==
    IF c \in 65..90 \/ (c \in 192..222 /\ c # 215) THEN c + 32 ELSE c

lowerstr(s) == [i \in 1..Len(s) |-> LowerChar(s[i])]

(* memcmp(a, b, n): the sign of the first difference in the first n units. *)
RECURSIVE memcmp_from(_, _, _, _)
memcmp_from(a, b, n, i) ==
    IF i > n THEN 0
    ELSE IF a[i] < b[i] THEN -1
    ELSE IF a[i] > b[i] THEN 1
    ELSE memcmp_from(a, b, n, i + 1)

memcmp(a, b, n) == memcmp_from(a, b, n, 1)

(* strcmp(a, b) on NUL-terminated strings.                                 *)
strcmp(a, b) ==
    LET c == memcmp(a, b, Min(Len(a), Len(b)))
    IN  IF c # 0 THEN c
        ELSE IF Len(a) < Len(b) THEN -1
        ELSE IF Len(a) > Len(b) THEN 1
        ELSE 0

----------------------------------------------------------------------------
(* Lookup indices.                                                         *)

lemma_is_compare_word(bin, idx, word, word_len) ==
    LET entry == bin.words[idx + 1]
        len == Len(entry)
        minlen == IF word_len < len THEN word_len ELSE len
        cmp == memcmp(entry, word, minlen)
    IN  IF cmp = 0 THEN len - word_len ELSE cmp

RECURSIVE find_word_loop(_, _, _, _)
find_word_loop(bin, word, left, right) ==
    IF left <= right
    THEN LET mid == (left + right) \div 2
             cmp == lemma_is_compare_word(bin, mid, word, Len(word))
         IN  IF cmp = 0 THEN mid
             ELSE IF cmp < 0 THEN find_word_loop(bin, word, mid + 1, right)
             ELSE find_word_loop(bin, word, left, mid - 1)
    ELSE -1

find_word_skip_last(bin, word) == find_word_loop(bin, word, 0, bin.wordCount - 2)

lemma_is_find_word(bin, word) == find_word_loop(bin, word, 0, bin.wordCount - 1)

lemma_is_compare_bigram(bin, idx, word1, word1_len, word2, word2_len) ==
    LET w1_entry == bin.bigrams[idx + 1].w1
        w1_len == Len(w1_entry)
        minlen1 == IF word1_len < w1_len THEN word1_len ELSE w1_len
        cmp1 == memcmp(w1_entry, word1, minlen1)
        w2_entry == bin.bigrams[idx + 1].w2
        w2_len == Len(w2_entry)
        minlen2 == IF word2_len < w2_len THEN word2_len ELSE w2_len
        cmp2 == memcmp(w2_entry, word2, minlen2)
    IN  IF cmp1 = 0
        THEN IF w1_len - word1_len = 0
             THEN IF cmp2 = 0 THEN w2_len - word2_len ELSE cmp2
             ELSE w1_len - word1_len
        ELSE cmp1

RECURSIVE find_bigram_loop(_, _, _, _, _)
find_bigram_loop(bin, word1, word2, left, right) ==
    IF left <= right
    THEN LET mid == (left + right) \div 2
             cmp == lemma_is_compare_bigram(bin, mid, word1, Len(word1),
                                            word2, Len(word2))
         IN  IF cmp = 0 THEN mid
             ELSE IF cmp < 0
                  THEN find_bigram_loop(bin, word1, word2, mid + 1, right)
             ELSE find_bigram_loop(bin, word1, word2, left, mid - 1)
    ELSE -1

lemma_is_find_bigram(bin, word1, word2) ==
    IF bin.bigramCount = 0 THEN -1
    ELSE find_bigram_loop(bin, word1, word2, 0, bin.bigramCount - 1)

lemma_is_bigram_freq(bin, word1, word2) ==
    LET idx == lemma_is_find_bigram(bin, word1, word2)
    IN  IF idx < 0 THEN 0 ELSE bin.bigrams[idx + 1].freq

----------------------------------------------------------------------------
(* Dictionary format reader.                                               *)
(*                                                                         *)
(* A file is a record: present (AllocateFile finds it), size (ftell), the  *)
(* header words as the loader's reads at bytes 0..27 yield them (a read    *)
(* past the end of the palloc'd buffer yields whatever lies there, so any  *)
(* value), and the tables the regions after the header hold.  Size is      *)
(* size_t: on the 64-bit builds modelled here no sum of 32-bit counts      *)
(* wraps.                                                                  *)

LEMMA_MAGIC == 1279610177       \* 0x4C454D41
HEADER_SIZE == 32

Align4(offset) == ((offset + 3) \div 4) * 4

LoadError(msg, readEnd) == [status |-> msg, readEnd |-> readEnd, bin |-> NULL]

(* Offsets as lemma_is_load_binary advances them.                          *)
OffEntries(f) ==
    LET o1 == HEADER_SIZE + f.stringPoolSize
        o2 == Align4(o1 + f.lemmaCount * 4 + f.lemmaCount)
        o3 == Align4(o2 + f.wordCount * 4 + f.wordCount)
    IN  o3 + (f.wordCount + 1) * 4

OffBigramsEnd(f) ==
    LET o5 == Align4(OffEntries(f) + f.entryCount * 4)
        o6 == Align4(o5 + f.bigramCount * 4 + f.bigramCount)
        o7 == Align4(o6 + f.bigramCount * 4 + f.bigramCount)
    IN  o7 + f.bigramCount * 4

LoadedBinary(f) ==
    [size |-> f.size, version |-> f.version,
     stringPoolSize |-> f.stringPoolSize, lemmaCount |-> f.lemmaCount,
     wordCount |-> f.wordCount, entryCount |-> f.entryCount,
     bigramCount |-> f.bigramCount,
     lemmas |-> f.lemmas, words |-> f.words,
     entryOffsets |-> f.entryOffsets, entries |-> f.entries,
     bigrams |-> f.bigrams]

(* A loader that forgets the version check.                                *)
load_binary_any_version(f) ==
    IF ~f.present THEN LoadError("could not open data file", 0)
    ELSE IF f.size <= 0 THEN LoadError("could not read data file", 0)
    ELSE IF f.magic # LEMMA_MAGIC THEN LoadError("bad magic", 4)
    ELSE IF HEADER_SIZE + f.stringPoolSize > f.size
    THEN LoadError("string pool out of bounds", 28)
    ELSE IF OffEntries(f) + f.entryCount * 4 > f.size
    THEN LoadError("entries out of bounds", 28)
    ELSE IF f.bigramCount > 0 /\ OffBigramsEnd(f) > f.size
    THEN LoadError("bigrams out of bounds", 28)
    ELSE [status |-> "ok", readEnd |-> 28, bin |-> <<LoadedBinary(f)>>]

(* readEnd is the end of the last header word read from the buffer.        *)
lemma_is_load_binary(f) ==
    IF ~f.present THEN LoadError("could not open data file", 0)
    ELSE IF f.size <= 0 THEN LoadError("could not read data file", 0)
    ELSE IF f.magic # LEMMA_MAGIC THEN LoadError("bad magic", 4)
    ELSE IF f.version # 1 /\ f.version # 2
    THEN LoadError("unsupported binary version", 8)
    ELSE IF HEADER_SIZE + f.stringPoolSize > f.size
    THEN LoadError("string pool out of bounds", 28)
    ELSE IF OffEntries(f) + f.entryCount * 4 > f.size
    THEN LoadError("entries out of bounds", 28)
    ELSE IF f.bigramCount > 0 /\ OffBigramsEnd(f) > f.size
    THEN LoadError("bigrams out of bounds", 28)
    ELSE [status |-> "ok", readEnd |-> 28, bin |-> <<LoadedBinary(f)>>]

----------------------------------------------------------------------------
(* Entry codec.                                                            *)

(* A decoder that reads every entry in the version 2 layout.               *)
unpack_entry_ignores_version(bin, packed) ==
    [lemmaIdx |-> packed \div 1024, posCode |-> packed % 16,
     caseCode |-> (packed \div 16) % 8,
     genderCode |-> (packed \div 128) % 4,
     numberCode |-> (packed \div 512) % 2]

lemma_is_unpack_entry(bin, packed) ==
    IF bin.version = 1
    THEN [lemmaIdx |-> packed \div 16, posCode |-> packed % 16,
          caseCode |-> 0, genderCode |-> 0, numberCode |-> 0]
    ELSE [lemmaIdx |-> packed \div 1024, posCode |-> packed % 16,
          caseCode |-> (packed \div 16) % 8,
          genderCode |-> (packed \div 128) % 4,
          numberCode |-> (packed \div 512) % 2]

(* enum IcelandicPos of icelandic_fts_data.h, in declaration order: the    *)
(* value of a tag is its place in this list, counted from 0.               *)
IcelandicPos ==
    <<"POS_NO", "POS_SO", "POS_LO", "POS_AO", "POS_FS",
      "POS_FN", "POS_ST", "POS_TO", "POS_GR", "POS_UH">>

PosValue(pos) == (CHOOSE i \in 1..Len(IcelandicPos) : IcelandicPos[i] = pos) - 1

lemma_is_pos_from_code(code) ==
    CASE code = 0 -> "POS_NO"
      [] code = 1 -> "POS_SO"
      [] code = 2 -> "POS_LO"
      [] code = 3 -> "POS_AO"
      [] code = 4 -> "POS_FS"
      [] code = 5 -> "POS_FN"
      [] code = 6 -> "POS_ST"
      [] code = 7 -> "POS_TO"
      [] code = 8 -> "POS_GR"
      [] code = 9 -> "POS_UH"
      [] OTHER -> "POS_NO"

lemma_is_get_lemma(bin, idx) == bin.lemmas[idx + 1]

----------------------------------------------------------------------------
(* Stopword filter.                                                        *)

(* The generated tables of icelandic_fts_data.h, each sorted by word: "b"  *)
(* is a plain stopword, "a" is a stopword as a verb (POS_SO) only.         *)
ICELANDIC_STOPWORDS == <<[word |-> <<98>>]>>

ICELANDIC_CONTEXTUAL_STOPWORDS ==
    <<[word |-> <<97>>, pos_mask |-> 2 ^ PosValue("POS_SO")]>>

(* bsearch() over a table sorted by strcmp: the matching element or NULL.  *)
bsearch(key, table) ==
    IF \E i \in 1..Len(table) : strcmp(key, table[i].word) = 0
    THEN <<table[CHOOSE i \in 1..Len(table) : strcmp(key, table[i].word) = 0]>>
    ELSE NULL

lemma_is_stopword_simple(lemma) ==
    IF Len(ICELANDIC_STOPWORDS) = 0 THEN FALSE
    ELSE bsearch(lemma, ICELANDIC_STOPWORDS) # NULL

lemma_is_contextual_stopword(lemma, pos) ==
    IF Len(ICELANDIC_CONTEXTUAL_STOPWORDS) = 0
    THEN lemma_is_stopword_simple(lemma)
    ELSE LET entry == bsearch(lemma, ICELANDIC_CONTEXTUAL_STOPWORDS)
         IN  IF entry = NULL THEN lemma_is_stopword_simple(lemma)
             ELSE (entry[1].pos_mask \div (2 ^ PosValue(pos))) % 2 # 0

----------------------------------------------------------------------------
(* Candidate resolver.                                                     *)

FallbackCandidate(lower) ==
    <<[lemma |-> lower, pos |-> "POS_NO",
       caseCode |-> 0, genderCode |-> 0, numberCode |-> 0]>>

(* The loop over entries start..end-1, keeping the first candidate of      *)
(* every (pos, lemma).                                                     *)
RECURSIVE candidates_loop(_, _, _, _)
candidates_loop(bin, i, end, candidates) ==
    IF i < end
    THEN LET packed == bin.entries[i + 1]
             entry == lemma_is_unpack_entry(bin, packed)
             pos == lemma_is_pos_from_code(entry.posCode)
             lemma == lemma_is_get_lemma(bin, entry.lemmaIdx)
             seen == \E j \in 1..Len(candidates) :
                        /\ candidates[j].pos = pos
                        /\ strcmp(candidates[j].lemma, lemma) = 0
         IN  candidates_loop(bin, i + 1, end,
                IF seen THEN candidates
                ELSE Append(candidates,
                        [lemma |-> lemma, pos |-> pos,
                         caseCode |-> entry.caseCode,
                         genderCode |-> entry.genderCode,
                         numberCode |-> entry.numberCode]))
    ELSE candidates

(* The candidate array, its length being *out_count; NULL with a count of  *)
(* 0 is the empty sequence.                                                *)
lemma_is_get_candidates(bin, word) ==
    LET lower == lowerstr(word)
        idx == lemma_is_find_word(bin, lower)
        start == bin.entryOffsets[idx + 1]
        end == bin.entryOffsets[idx + 2]
        candidates == candidates_loop(bin, start, end, <<>>)
    IN  IF idx < 0 THEN FallbackCandidate(lower)
        ELSE IF end < start THEN <<>>
        ELSE IF Len(candidates) = 0 THEN FallbackCandidate(lower)
        ELSE candidates

----------------------------------------------------------------------------
(* Disambiguator.                                                          *)
(*                                                                         *)
(* A score is a sum of log(freq + 1) terms.  The model keeps e^score, the  *)
(* product of the (freq + 1), which is exact in the naturals: score = 0.0  *)
(* is weight 1, score > best_score is weight > best weight, and            *)
(* exp(score) is the weight.  A confidence is the pair <<num, den>> of the *)
(* quotient exp(best_score) / total; 0.0 is <<0, 1>>.                      *)

RECURSIVE neighbour_weight(_, _, _, _, _)
neighbour_weight(bin, lemma, neighbours, before, j) ==
    IF j > Len(neighbours) THEN 1
    ELSE LET freq == IF before
                     THEN lemma_is_bigram_freq(bin, neighbours[j].lemma, lemma)
                     ELSE lemma_is_bigram_freq(bin, lemma, neighbours[j].lemma)
         IN  (IF freq > 0 THEN freq + 1 ELSE 1)
                * neighbour_weight(bin, lemma, neighbours, before, j + 1)

candidate_weight(bin, candidate, prev_candidates, next_candidates) ==
    neighbour_weight(bin, candidate.lemma, prev_candidates, TRUE, 1)
        * neighbour_weight(bin, candidate.lemma, next_candidates, FALSE, 1)

(* A scoring loop in which an equal score replaces the running best.       *)
RECURSIVE scoring_loop_last_wins(_, _, _, _, _, _)
scoring_loop_last_wins(bin, candidates, prev_candidates, next_candidates, i, st) ==
    IF i >= Len(candidates) THEN st
    ELSE LET score == candidate_weight(bin, candidates[i + 1],
                                       prev_candidates, next_candidates)
         IN  scoring_loop_last_wins(bin, candidates, prev_candidates,
                next_candidates, i + 1,
                [scores |-> Append(st.scores, score),
                 best_score |-> IF score >= st.best_score THEN score ELSE st.best_score,
                 best_idx |-> IF score >= st.best_score THEN i ELSE st.best_idx])

(* The scoring loop: st holds scores, best_score and best_idx.             *)
RECURSIVE scoring_loop(_, _, _, _, _, _)
scoring_loop(bin, candidates, prev_candidates, next_candidates, i, st) ==
    IF i >= Len(candidates) THEN st
    ELSE LET score == candidate_weight(bin, candidates[i + 1],
                                       prev_candidates, next_candidates)
         IN  scoring_loop(bin, candidates, prev_candidates, next_candidates, i + 1,
                [scores |-> Append(st.scores, score),
                 best_score |-> IF score > st.best_score THEN score ELSE st.best_score,
                 best_idx |-> IF score > st.best_score THEN i ELSE st.best_idx])

RECURSIVE SumSeq(_, _)
SumSeq(xs, i) == IF i > Len(xs) THEN 0 ELSE xs[i] + SumSeq(xs, i + 1)

(* The outputs as the callers initialise them; returned untouched when     *)
(* count <= 0.                                                             *)
NotDisambiguated ==
    [returned |-> FALSE, lemma |-> NULL, pos |-> "POS_NO",
     confidence |-> <<0, 1>>, by_bigram |-> FALSE, exp_scores |-> <<>>]

lemma_is_disambiguate_bigram(bin, candidates, prev_candidates, next_candidates) ==
    IF Len(candidates) <= 0 THEN NotDisambiguated
    ELSE LET st == scoring_loop(bin, candidates, prev_candidates, next_candidates, 0,
                                [scores |-> <<>>, best_score |-> 1, best_idx |-> 0])
             total == SumSeq(st.scores, 1)
         IN  [returned |-> TRUE,
              lemma |-> <<candidates[st.best_idx + 1].lemma>>,
              pos |-> candidates[st.best_idx + 1].pos,
              confidence |-> IF st.best_score > 1
                             THEN IF total > 0 THEN <<st.best_score, total>>
                                  ELSE <<1, 2>>
                             ELSE <<0, 1>>,
              by_bigram |-> st.best_score > 1,
              exp_scores |-> st.scores]

----------------------------------------------------------------------------
(* Tokenizer.                                                              *)

(* u_isalpha() on the code points the model's texts use: the ASCII and     *)
(* Latin-1 letters.                                                        *)
icelandic_is_alpha(wc) ==
    \/ wc \in 65..90
    \/ wc \in 97..122
    \/ wc \in {170, 181, 186}
    \/ (wc \in 192..255 /\ wc # 215 /\ wc # 247)

icelandic_is_word_joiner(wc) == wc \in {39, 8217, 45, 8211, 8212}

(* An inner loop that takes a joiner whenever any code point follows it.   *)
RECURSIVE token_end_any_after_joiner(_, _)
token_end_any_after_joiner(input, offset) ==
    IF offset < Len(input)
    THEN IF icelandic_is_alpha(input[offset + 1])
         THEN token_end_any_after_joiner(input, offset + 1)
         ELSE IF /\ icelandic_is_word_joiner(input[offset + 1])
                 /\ offset + 1 < Len(input)
              THEN token_end_any_after_joiner(input, offset + 1)
         ELSE offset
    ELSE offset

(* The inner loop: the offset where the token that is being read ends.     *)
RECURSIVE token_end(_, _)
token_end(input, offset) ==
    IF offset < Len(input)
    THEN IF icelandic_is_alpha(input[offset + 1]) THEN token_end(input, offset + 1)
         ELSE IF /\ icelandic_is_word_joiner(input[offset + 1])
                 /\ offset + 1 < Len(input)
                 /\ icelandic_is_alpha(input[offset + 2])
              THEN token_end(input, offset + 1)
         ELSE offset
    ELSE offset

RECURSIVE tokenize_loop(_, _, _)
tokenize_loop(input, offset, tokens) ==
    IF offset < Len(input)
    THEN IF icelandic_is_alpha(input[offset + 1])
         THEN LET start == offset
                  end == token_end(input, offset + 1)
              IN  tokenize_loop(input, end,
                     Append(tokens, SubSeq(input, start + 1, end)))
         ELSE tokenize_loop(input, offset + 1, tokens)
    ELSE tokens

icelandic_tokenize_words(input) == tokenize_loop(input, 0, <<>>)

----------------------------------------------------------------------------
(* The SQL functions.                                                      *)

(* if (lemma_is_bin == NULL): whether a call loads the dictionary.         *)
always_load(handle) == TRUE

needs_load(handle) == handle = NULL

(* The handle after the first lines of a SQL function, and the error that  *)
(* ereport(ERROR) raised from the loader, if any: the assignment to        *)
(* lemma_is_bin is not reached then.                                       *)
ensure_loaded(handle, f) ==
    IF needs_load(handle)
    THEN LET res == lemma_is_load_binary(f)
         IN  [loaded |-> TRUE, status |-> res.status,
              bin |-> IF res.status = "ok" THEN res.bin ELSE handle]
    ELSE [loaded |-> FALSE, status |-> "ok", bin |-> handle]

(* icelandic_lexize: the distinct lemma ids of entries start..end-1, in    *)
(* first-seen order.                                                       *)
RECURSIVE lexize_loop(_, _, _, _)
lexize_loop(bin, i, end, lemmaIds) ==
    IF i < end
    THEN LET entry == lemma_is_unpack_entry(bin, bin.entries[i + 1])
             seen == \E j \in 1..Len(lemmaIds) : lemmaIds[j] = entry.lemmaIdx
         IN  lexize_loop(bin, i + 1, end,
                IF seen THEN lemmaIds ELSE Append(lemmaIds, entry.lemmaIdx))
    ELSE lemmaIds

(* A lexize that forgets to lower-case the word it hands back.             *)
lexize_body_keeps_case(bin, input) ==
    LET txt == lowerstr(input)
        idx == lemma_is_find_word(bin, txt)
        start == bin.entryOffsets[idx + 1]
        end == bin.entryOffsets[idx + 2]
        lemmaIds == lexize_loop(bin, start, end, <<>>)
    IN  IF idx < 0 THEN [status |-> "ok", lemmas |-> <<input>>]
        ELSE IF end < start THEN [status |-> "null"]
        ELSE IF Len(lemmaIds) = 0 THEN [status |-> "ok", lemmas |-> <<input>>]
        ELSE [status |-> "ok",
              lemmas |-> [i \in 1..Len(lemmaIds) |->
                             lemma_is_get_lemma(bin, lemmaIds[i])]]

lexize_body(bin, input) ==
    LET txt == lowerstr(input)
        idx == lemma_is_find_word(bin, txt)
        start == bin.entryOffsets[idx + 1]
        end == bin.entryOffsets[idx + 2]
        lemmaIds == lexize_loop(bin, start, end, <<>>)
    IN  IF idx < 0 THEN [status |-> "ok", lemmas |-> <<txt>>]
        ELSE IF end < start THEN [status |-> "null"]
        ELSE IF Len(lemmaIds) = 0 THEN [status |-> "ok", lemmas |-> <<txt>>]
        ELSE [status |-> "ok",
              lemmas |-> [i \in 1..Len(lemmaIds) |->
                             lemma_is_get_lemma(bin, lemmaIds[i])]]

(* token_data[i]: the token and its candidates.                            *)
resolve_tokens(bin, tokens) ==
    [i \in 1..Len(tokens) |->
        [token |-> tokens[i],
         candidates |-> lemma_is_get_candidates(bin, tokens[i])]]

(* What one round of the token loop computed; kept in the result so that   *)
(* properties can speak of it.                                             *)
TokenRound(data, disambig, consulted, filter, token_lemmas) ==
    [token |-> data.token, candidates |-> data.candidates,
     disambig |-> disambig, consulted |-> consulted,
     filter_disambiguated |-> filter, token_lemmas |-> token_lemmas]

(* icelandic_fts_lemmas: the loop that collects a token's lemmas.          *)
RECURSIVE lemmas_token_loop(_, _, _, _, _)
lemmas_token_loop(candidates, j, filter_disambiguated, disambig_lemma, token_lemmas) ==
    IF j < Len(candidates)
    THEN LET lemma == candidates[j + 1].lemma
             seen == \E k \in 1..Len(token_lemmas) : strcmp(token_lemmas[k], lemma) = 0
             skip == \/ seen
                     \/ /\ filter_disambiguated
                        /\ disambig_lemma # NULL
                        /\ strcmp(lemma, disambig_lemma[1]) = 0
         IN  lemmas_token_loop(candidates, j + 1, filter_disambiguated, disambig_lemma,
                IF skip THEN token_lemmas ELSE Append(token_lemmas, lemma))
    ELSE token_lemmas

(* A token round that asks the stopword lists about every token's best    *)
(* candidate, disambiguated by a bigram or not.                            *)
lemmas_token_round_filters_all(bin, token_data, i) ==
    LET candidates == token_data[i + 1].candidates
        disambig == lemma_is_disambiguate_bigram(bin, candidates,
                        IF i > 0 THEN token_data[i].candidates ELSE NULL,
                        IF i + 1 < Len(token_data)
                        THEN token_data[i + 2].candidates ELSE NULL)
        consulted == disambig.lemma # NULL
        filter_disambiguated ==
            IF consulted
            THEN lemma_is_contextual_stopword(disambig.lemma[1], disambig.pos)
            ELSE FALSE
    IN  TokenRound(token_data[i + 1], disambig, consulted, filter_disambiguated,
            lemmas_token_loop(candidates, 0, filter_disambiguated,
                              disambig.lemma, <<>>))

lemmas_token_round(bin, token_data, i) ==
    LET candidates == token_data[i + 1].candidates
        disambig == lemma_is_disambiguate_bigram(bin, candidates,
                        IF i > 0 THEN token_data[i].candidates ELSE NULL,
                        IF i + 1 < Len(token_data)
                        THEN token_data[i + 2].candidates ELSE NULL)
        consulted == disambig.by_bigram /\ disambig.lemma # NULL
        filter_disambiguated ==
            IF consulted
            THEN lemma_is_contextual_stopword(disambig.lemma[1], disambig.pos)
            ELSE FALSE
    IN  TokenRound(token_data[i + 1], disambig, consulted, filter_disambiguated,
            lemmas_token_loop(candidates, 0, filter_disambiguated,
                              disambig.lemma, <<>>))

(* An append that skips a lemma only if it is the one appended last.       *)
RECURSIVE lemmas_append_loop_adjacent(_, _, _)
lemmas_append_loop_adjacent(token_lemmas, j, lemmas) ==
    IF j < Len(token_lemmas)
    THEN LET seen == /\ Len(lemmas) > 0
                     /\ strcmp(lemmas[Len(lemmas)], token_lemmas[j + 1]) = 0
         IN  lemmas_append_loop_adjacent(token_lemmas, j + 1,
                IF seen THEN lemmas ELSE Append(lemmas, token_lemmas[j + 1]))
    ELSE lemmas

(* Appending one token's lemmas to the text's, skipping those seen.        *)
RECURSIVE lemmas_append_loop(_, _, _)
lemmas_append_loop(token_lemmas, j, lemmas) ==
    IF j < Len(token_lemmas)
    THEN LET seen == \E k \in 1..Len(lemmas) :
                        strcmp(lemmas[k], token_lemmas[j + 1]) = 0
         IN  lemmas_append_loop(token_lemmas, j + 1,
                IF seen THEN lemmas ELSE Append(lemmas, token_lemmas[j + 1]))
    ELSE lemmas

RECURSIVE lemmas_loop(_, _, _, _, _)
lemmas_loop(bin, token_data, i, rounds, lemmas) ==
    IF i < Len(token_data)
    THEN LET round == lemmas_token_round(bin, token_data, i)
         IN  lemmas_loop(bin, token_data, i + 1, Append(rounds, round),
                lemmas_append_loop(round.token_lemmas, 0, lemmas))
    ELSE [rounds |-> rounds, lemmas |-> lemmas]

fts_lemmas_body(bin, txt) ==
    LET tokens == icelandic_tokenize_words(txt)
        token_data == resolve_tokens(bin, tokens)
        out == lemmas_loop(bin, token_data, 0, <<>>, <<>>)
    IN  IF Len(out.lemmas) = 0
        THEN [status |-> "null", rounds |-> out.rounds]
        ELSE [status |-> "ok", lemmas |-> out.lemmas, rounds |-> out.rounds]

(* icelandic_fts_query: the same token loop, written out a second time.    *)
RECURSIVE query_token_loop(_, _, _, _, _)
query_token_loop(candidates, j, filter_disambiguated, disambig_lemma, token_lemmas) ==
    IF j < Len(candidates)
    THEN LET lemma == candidates[j + 1].lemma
             seen == \E k \in 1..Len(token_lemmas) : strcmp(token_lemmas[k], lemma) = 0
             skip == \/ seen
                     \/ /\ filter_disambiguated
                        /\ disambig_lemma # NULL
                        /\ strcmp(lemma, disambig_lemma[1]) = 0
         IN  query_token_loop(candidates, j + 1, filter_disambiguated, disambig_lemma,
                IF skip THEN token_lemmas ELSE Append(token_lemmas, lemma))
    ELSE token_lemmas

query_token_round(bin, token_data, i) ==
    LET candidates == token_data[i + 1].candidates
        disambig == lemma_is_disambiguate_bigram(bin, candidates,
                        IF i > 0 THEN token_data[i].candidates ELSE NULL,
                        IF i + 1 < Len(token_data)
                        THEN token_data[i + 2].candidates ELSE NULL)
        consulted == disambig.by_bigram /\ disambig.lemma # NULL
        filter_disambiguated ==
            IF consulted
            THEN lemma_is_contextual_stopword(disambig.lemma[1], disambig.pos)
            ELSE FALSE
    IN  TokenRound(token_data[i + 1], disambig, consulted, filter_disambiguated,
            query_token_loop(candidates, 0, filter_disambiguated,
                             disambig.lemma, <<>>))

AND_SEPARATOR == <<32, 38, 32>>     \* " & "
OR_SEPARATOR == <<32, 124, 32>>     \* " | "
OPEN_PAREN == <<40>>                \* '('
CLOSE_PAREN == <<41>>               \* ')'

(* The lemmas of one group, joined by " | ".                               *)
RECURSIVE query_group_loop(_, _, _)
query_group_loop(token_lemmas, j, query) ==
    IF j < Len(token_lemmas)
    THEN query_group_loop(token_lemmas, j + 1,
            (IF j > 0 THEN query \o OR_SEPARATOR ELSE query) \o token_lemmas[j + 1])
    ELSE query

(* A query loop that writes " & " before every token but the first,        *)
(* whether or not an earlier token wrote a group.                          *)
RECURSIVE query_loop_separates_by_index(_, _, _, _)
query_loop_separates_by_index(bin, token_data, i, st) ==
    IF i < Len(token_data)
    THEN LET round == query_token_round(bin, token_data, i)
             token_lemmas == round.token_lemmas
             rounds == Append(st.rounds, round)
             q1 == IF i > 0 THEN st.query \o AND_SEPARATOR ELSE st.query
             q2 == IF Len(token_lemmas) > 1 THEN q1 \o OPEN_PAREN ELSE q1
             q3 == query_group_loop(token_lemmas, 0, q2)
             q4 == IF Len(token_lemmas) > 1 THEN q3 \o CLOSE_PAREN ELSE q3
         IN  query_loop_separates_by_index(bin, token_data, i + 1,
                IF Len(token_lemmas) = 0
                THEN [st EXCEPT !.rounds = rounds]
                ELSE [query |-> q4, first_group |-> FALSE, rounds |-> rounds])
    ELSE st

(* st holds query (the StringInfo), first_group and the rounds so far.     *)
RECURSIVE query_loop(_, _, _, _)
query_loop(bin, token_data, i, st) ==
    IF i < Len(token_data)
    THEN LET round == query_token_round(bin, token_data, i)
             token_lemmas == round.token_lemmas
             rounds == Append(st.rounds, round)
             q1 == IF ~st.first_group THEN st.query \o AND_SEPARATOR ELSE st.query
             q2 == IF Len(token_lemmas) > 1 THEN q1 \o OPEN_PAREN ELSE q1
             q3 == query_group_loop(token_lemmas, 0, q2)
             q4 == IF Len(token_lemmas) > 1 THEN q3 \o CLOSE_PAREN ELSE q3
         IN  query_loop(bin, token_data, i + 1,
                IF Len(token_lemmas) = 0
                THEN [st EXCEPT !.rounds = rounds]
                ELSE [query |-> q4, first_group |-> FALSE, rounds |-> rounds])
    ELSE st

fts_query_body(bin, txt) ==
    LET tokens == icelandic_tokenize_words(txt)
        token_data == resolve_tokens(bin, tokens)
        out == query_loop(bin, token_data, 0,
                          [query |-> <<>>, first_group |-> TRUE, rounds |-> <<>>])
    IN  [status |-> "ok", query |-> out.query, rounds |-> out.rounds]

----------------------------------------------------------------------------
(* Values shared by the specifications.                                    *)

NoCall == [op |-> "none"]
NoReturn == [status |-> "none"]

NoFile ==
    [present |-> FALSE, size |-> 0, magic |-> 0, version |-> 0,
     stringPoolSize |-> 0, lemmaCount |-> 0, wordCount |-> 0,
     entryCount |-> 0, bigramCount |-> 0,
     lemmas |-> <<>>, words |-> <<>>, entryOffsets |-> <<>>,
     entries |-> <<>>, bigrams |-> <<>>]

SeqsUpTo(S, n) == UNION {[1..k -> S] : k \in 0..n}

(* a sorts before b: a is a proper prefix of b, or a holds the smaller     *)
(* unit at the first place where they differ.                              *)
LexLess(a, b) ==
    \/ Len(a) < Len(b) /\ \A j \in 1..Len(a) : a[j] = b[j]
    \/ \E i \in 1..Min(Len(a), Len(b)) :
          a[i] < b[i] /\ \A j \in 1..(i - 1) : a[j] = b[j]

BigramLess(x, y) ==
    LexLess(x.w1, y.w1) \/ (x.w1 = y.w1 /\ LexLess(x.w2, y.w2))

----------------------------------------------------------------------------
(* SpecSearch: the two binary searches over every sorted index within the *)
(* bounds and every key.                                                   *)

WordStrings == StringsUpTo({97, 98}, MaxWordLen)

SortedWordLists ==
    {ws \in SeqsUpTo(WordStrings, MaxWords) :
        \A i \in 1..(Len(ws) - 1) : ws[i] = ws[i + 1] \/ LexLess(ws[i], ws[i + 1])}

BigramWords == {<<>>, <<97>>, <<97, 98>>, <<98>>}

BigramKeys == {[w1 |-> x, w2 |-> y, freq |-> 1] : x \in BigramWords, y \in BigramWords}

SortedBigramLists ==
    {bs \in SeqsUpTo(BigramKeys, MaxBigrams) :
        \A i \in 1..(Len(bs) - 1) : bs[i] = bs[i + 1] \/ BigramLess(bs[i], bs[i + 1])}

IndexBinary(words, bigrams) ==
    [wordCount |-> Len(words), words |-> words,
     bigramCount |-> Len(bigrams), bigrams |-> bigrams]

InitSearch ==
    /\ file = NoFile
    /\ lemma_is_bin = NULL
    /\ loads = 0
    /\ ret = NoReturn
    /\ \/ \E ws \in SortedWordLists, k \in WordStrings :
             args = [op |-> "find_word", bin |-> IndexBinary(ws, <<>>), word |-> k]
       \/ \E bs \in SortedBigramLists, k \in BigramKeys :
             args = [op |-> "find_bigram", bin |-> IndexBinary(<<>>, bs),
                     word1 |-> k.w1, word2 |-> k.w2]

FindWord ==
    /\ args.op = "find_word"
    /\ ret = NoReturn
    /\ ret' = [status |-> "searched", idx |-> lemma_is_find_word(args.bin, args.word)]
    /\ UNCHANGED <<file, lemma_is_bin, loads, args>>

FindBigram ==
    /\ args.op = "find_bigram"
    /\ ret = NoReturn
    /\ ret' = [status |-> "searched",
               idx |-> lemma_is_find_bigram(args.bin, args.word1, args.word2)]
    /\ UNCHANGED <<file, lemma_is_bin, loads, args>>

NextSearch == FindWord \/ FindBigram

SpecSearch == InitSearch /\ [][NextSearch]_vars

(* C6: over a sorted word index (bigram index) the binary search answers   *)
(* "not found" (-1) for every key below the first or above the last entry, *)
(* and answers the index of the entry for every key present exactly once.  *)
C6_BinarySearch ==
    /\ (args.op = "find_word" /\ ret.status = "searched") =>
          LET ws == args.bin.words
              n == Len(ws)
          IN  /\ (n > 0 /\ (LexLess(args.word, ws[1]) \/ LexLess(ws[n], args.word)))
                    => ret.idx = -1
              /\ \A i \in 1..n :
                    (ws[i] = args.word /\ \A j \in 1..n : j # i => ws[j] # args.word)
                    => ret.idx = i - 1
    /\ (args.op = "find_bigram" /\ ret.status = "searched") =>
          LET bs == args.bin.bigrams
              n == Len(bs)
              key == [w1 |-> args.word1, w2 |-> args.word2, freq |-> 1]
          IN  /\ (n > 0 /\ (BigramLess(key, bs[1]) \/ BigramLess(bs[n], key)))
                    => ret.idx = -1
              /\ \A i \in 1..n :
                    (bs[i] = key /\ \A j \in 1..n : j # i => bs[j] # key)
                    => ret.idx = i - 1

C6_Witness ==
    /\ args.op = "find_word"
    /\ ret.status = "searched"
    /\ Len(args.bin.words) = MaxWords
    /\ args.bin.words[MaxWords] = args.word
    /\ args.bin.words[MaxWords - 1] # args.word
    /\ ret.idx = MaxWords - 1

----------------------------------------------------------------------------
(* SpecLoad: lemma_is_load_binary on every buffer size and every header    *)
(* within the bounds.                                                      *)

HeaderOnly(size, magic, version, pool, lemmaCount, wordCount, entryCount, bigramCount) ==
    [present |-> TRUE, size |-> size, magic |-> magic, version |-> version,
     stringPoolSize |-> pool, lemmaCount |-> lemmaCount,
     wordCount |-> wordCount, entryCount |-> entryCount,
     bigramCount |-> bigramCount,
     lemmas |-> <<>>, words |-> <<>>, entryOffsets |-> <<>>,
     entries |-> <<>>, bigrams |-> <<>>]

LargestHeader ==
    HeaderOnly(0, LEMMA_MAGIC, 2, MaxPool, MaxCount, MaxCount, MaxCount, MaxCount)

HeaderFiles ==
    {HeaderOnly(size, magic, version, pool, lc, wc, ec, bc) :
        size \in 0..(OffBigramsEnd(LargestHeader) + 1),
        magic \in {LEMMA_MAGIC, 0},
        version \in 0..3,
        pool \in 0..MaxPool,
        lc \in 0..MaxCount, wc \in 0..MaxCount,
        ec \in 0..MaxCount, bc \in 0..MaxCount}

InitLoad ==
    /\ file \in HeaderFiles \cup {NoFile}
    /\ lemma_is_bin = NULL
    /\ loads = 0
    /\ args = NoCall
    /\ ret = NoReturn

(* The first lines of each SQL function: load when the handle is unset.    *)
Load ==
    /\ lemma_is_bin = NULL
    /\ ret = NoReturn
    /\ LET res == lemma_is_load_binary(file)
       IN  /\ lemma_is_bin' = res.bin
           /\ ret' = [status |-> res.status, readEnd |-> res.readEnd]
    /\ loads' = loads + 1
    /\ args' = [op |-> "load"]
    /\ UNCHANGED file

NextLoad == Load

SpecLoad == InitLoad /\ [][NextLoad]_vars

(* The regions of the format, in file order, each with the byte where it   *)
(* ends: header, string pool, lemma table, word table, entry-range         *)
(* offsets, entries and, with bigrams, the three bigram tables.            *)
RegionEnds(f) ==
    LET pool == HEADER_SIZE + f.stringPoolSize
        lemmaT == pool + 5 * f.lemmaCount
        wordT == Align4(lemmaT) + 5 * f.wordCount
        ranges == Align4(wordT) + 4 * (f.wordCount + 1)
        ents == ranges + 4 * f.entryCount
        big1 == Align4(ents) + 5 * f.bigramCount
        big2 == Align4(big1) + 5 * f.bigramCount
        freqs == Align4(big2) + 4 * f.bigramCount
    IN  {HEADER_SIZE, pool, lemmaT, wordT, ranges, ents}
            \cup (IF f.bigramCount > 0 THEN {big1, big2, freqs} ELSE {})

CorruptionErrors ==
    {"string pool out of bounds", "entries out of bounds", "bigrams out of bounds"}

(* C4: load checks every region boundary against the buffer size before   *)
(* any byte of the region is read (so it reads no byte at or past size),   *)
(* returns a Dictionary only if every region lies inside the buffer, and   *)
(* fails with a corruption error whenever a region ends past the size.     *)
C4_BoundsCheckedBeforeRead ==
    (args.op = "load" /\ ret.status # "none") =>
        /\ ret.readEnd <= file.size
        /\ ret.status = "ok" => \A e \in RegionEnds(file) : e <= file.size
        /\ (/\ file.present
            /\ file.size > 0
            /\ file.magic = LEMMA_MAGIC
            /\ file.version \in {1, 2}
            /\ \E e \in RegionEnds(file) : e > file.size)
              => ret.status \in CorruptionErrors

(* What does hold: a Dictionary is returned only if every region lies      *)
(* inside the buffer, and a region past the end is always refused.         *)
LoadRefusesOutOfBounds ==
    (args.op = "load" /\ ret.status # "none") =>
        /\ ret.status = "ok" => \A e \in RegionEnds(file) : e <= file.size
        /\ (/\ file.present
            /\ file.size > 0
            /\ file.magic = LEMMA_MAGIC
            /\ file.version \in {1, 2}
            /\ \E e \in RegionEnds(file) : e > file.size)
              => ret.status \in CorruptionErrors

----------------------------------------------------------------------------
(* SpecDisamb: lemma_is_disambiguate_bigram on every candidate list,       *)
(* neighbour lists and bigram table within the bounds.                     *)

DisambLemmas == {<<97>>, <<98>>}

(* The four bigrams over "a" and "b" in index order, each with the         *)
(* frequencies a table may hold for it; -1 leaves the bigram out.          *)
BigramSlots ==
    <<[w1 |-> <<97>>, w2 |-> <<97>>, freqs |-> {-1, 0, 1}],
      [w1 |-> <<97>>, w2 |-> <<98>>, freqs |-> {-1, 1, 2}],
      [w1 |-> <<98>>, w2 |-> <<97>>, freqs |-> {-1, 1, 2}],
      [w1 |-> <<98>>, w2 |-> <<98>>, freqs |-> {-1, 0, 1}]>>

RECURSIVE TableOf(_, _)
TableOf(choice, k) ==
    IF k > Len(BigramSlots) THEN <<>>
    ELSE (IF choice[k] < 0 THEN <<>>
          ELSE <<[w1 |-> BigramSlots[k].w1, w2 |-> BigramSlots[k].w2,
                  freq |-> choice[k]]>>)
            \o TableOf(choice, k + 1)

BigramTables ==
    {TableOf(choice, 1) :
        choice \in {c \in [1..Len(BigramSlots) -> -1..2] :
                       \A k \in 1..Len(BigramSlots) : c[k] \in BigramSlots[k].freqs}}

CandidateOf(lemma, pos) ==
    [lemma |-> lemma, pos |-> pos, caseCode |-> 0, genderCode |-> 0, numberCode |-> 0]

(* Candidate lists as the resolver makes them: no (lemma, pos) twice.      *)
CandidateLists ==
    {cs \in SeqsUpTo({CandidateOf(l, p) : l \in DisambLemmas, p \in {"POS_NO", "POS_SO"}},
                     MaxCands) :
        \A i, j \in 1..Len(cs) : i # j => cs[i] # cs[j]}

NeighbourLists ==
    SeqsUpTo({CandidateOf(l, "POS_NO") : l \in DisambLemmas}, MaxNeighbours)

InitDisamb ==
    /\ file = NoFile
    /\ lemma_is_bin = NULL
    /\ loads = 0
    /\ ret = NoReturn
    /\ \E table \in BigramTables, cs \in CandidateLists,
          prev \in NeighbourLists, next \in NeighbourLists :
          args = [op |-> "disambiguate", bin |-> IndexBinary(<<>>, table),
                  candidates |-> cs, prev_candidates |-> prev,
                  next_candidates |-> next]

Disambiguate ==
    /\ args.op = "disambiguate"
    /\ ret = NoReturn
    /\ ret' = [status |-> "disambiguated",
               out |-> lemma_is_disambiguate_bigram(args.bin, args.candidates,
                          args.prev_candidates, args.next_candidates)]
    /\ UNCHANGED <<file, lemma_is_bin, loads, args>>

NextDisamb == Disambiguate

SpecDisamb == InitDisamb /\ [][NextDisamb]_vars

(* The table holds the bigram (x, y) with a frequency above 0.             *)
PositiveBigram(bin, x, y) ==
    \E k \in 1..Len(bin.bigrams) :
        bin.bigrams[k].w1 = x /\ bin.bigrams[k].w2 = y /\ bin.bigrams[k].freq > 0

MatchesNeighbour(bin, candidate, prev, next) ==
    \/ \E j \in 1..Len(prev) : PositiveBigram(bin, prev[j].lemma, candidate.lemma)
    \/ \E j \in 1..Len(next) : PositiveBigram(bin, candidate.lemma, next[j].lemma)

(* C7: a candidate with no matching bigram with any neighbour candidate    *)
(* scores 0 (exp(score) = 1); when every candidate scores 0 the result has *)
(* by_bigram false, confidence 0 and the lemma and tag of the first        *)
(* candidate; and by_bigram is true exactly when some score is above 0.    *)
C7_ZeroScoreFirstCandidate ==
    (ret.status = "disambiguated" /\ ret.out.returned) =>
        LET out == ret.out
            cs == args.candidates
        IN  /\ Len(out.exp_scores) = Len(cs)
            /\ \A i \in 1..Len(cs) :
                  ~MatchesNeighbour(args.bin, cs[i], args.prev_candidates,
                                    args.next_candidates)
                     => out.exp_scores[i] = 1
            /\ (\A i \in 1..Len(cs) : out.exp_scores[i] = 1) =>
                  /\ out.by_bigram = FALSE
                  /\ out.confidence = <<0, 1>>
                  /\ out.lemma = <<cs[1].lemma>>
                  /\ out.pos = cs[1].pos
            /\ out.by_bigram <=> (\E i \in 1..Len(cs) : out.exp_scores[i] > 1)

C7_Witness ==
    /\ ret.status = "disambiguated"
    /\ ret.out.returned
    /\ Len(args.candidates) = MaxCands
    /\ Len(args.prev_candidates) > 0
    /\ Len(args.next_candidates) > 0
    /\ Len(args.bin.bigrams) > 1
    /\ \A i \in 1..Len(args.candidates) : ret.out.exp_scores[i] = 1
    /\ ~ret.out.by_bigram
    /\ ret.out.pos = "POS_SO"

Elements(seq) == {seq[i] : i \in 1..Len(seq)}

(* The greatest of the scores.                                             *)
BestScore(scores) ==
    CHOOSE x \in Elements(scores) : \A y \in Elements(scores) : y <= x

(* The first place in input order that holds the greatest score.           *)
FirstBest(scores) ==
    CHOOSE i \in 1..Len(scores) :
        /\ scores[i] = BestScore(scores)
        /\ \A j \in 1..(i - 1) : scores[j] < scores[i]

(* C12: the disambiguator returns the candidate with the greatest score,   *)
(* and among candidates that tie for it the first in input order: every    *)
(* candidate before the returned one scores strictly less, none after it   *)
(* scores more.                                                            *)
C12_StrictMaxFirstWins ==
    (ret.status = "disambiguated" /\ ret.out.returned) =>
        LET out == ret.out
            cs == args.candidates
            best == FirstBest(out.exp_scores)
        IN  /\ out.lemma = <<cs[best].lemma>>
            /\ out.pos = cs[best].pos
            /\ \A i \in 1..Len(cs) :
                  (out.lemma = <<cs[i].lemma>> /\ out.pos = cs[i].pos) =>
                      /\ \A j \in 1..(i - 1) : out.exp_scores[j] < out.exp_scores[i]
                      /\ \A j \in (i + 1)..Len(cs) :
                            out.exp_scores[j] <= out.exp_scores[i]

(* Two candidates of different lemmas tie above 0 and the first is kept.   *)
C12_Witness ==
    /\ ret.status = "disambiguated"
    /\ ret.out.returned
    /\ Len(args.candidates) = MaxCands
    /\ ret.out.exp_scores[1] > 1
    /\ ret.out.exp_scores[MaxCands] = ret.out.exp_scores[1]
    /\ args.candidates[1].lemma # args.candidates[MaxCands].lemma
    /\ ret.out.lemma = <<args.candidates[1].lemma>>
    /\ ret.out.pos = args.candidates[1].pos

(* A later candidate with a strictly greater score replaces a first one    *)
(* that scored above 0.                                                    *)
C12_LaterGreaterReached ==
    /\ ret.status = "disambiguated"
    /\ ret.out.returned
    /\ Len(args.candidates) > 1
    /\ ret.out.exp_scores[1] > 1
    /\ ret.out.exp_scores[2] > ret.out.exp_scores[1]
    /\ ret.out.lemma = <<args.candidates[2].lemma>>

----------------------------------------------------------------------------
(* SpecDecode: lemma_is_unpack_entry and lemma_is_pos_from_code on packed  *)
(* entries: every value of bits 0..9 under small values of bits 10..30    *)
(* and under all ones there, in both versions.  packed is a uint32 and    *)
(* its shifts are logical; bit 31 is 0 in the values drawn here, the       *)
(* largest being 2^31 - 1.                                                 *)

PackedEntries ==
    {high * 1024 + low : high \in (0..MaxHighBits) \cup {2 ^ 21 - 1}, low \in 0..1023}

InitDecode ==
    /\ file = NoFile
    /\ lemma_is_bin = NULL
    /\ loads = 0
    /\ ret = NoReturn
    /\ \E version \in {1, 2}, packed \in PackedEntries :
          args = [op |-> "decode", bin |-> [version |-> version], packed |-> packed]

Decode ==
    /\ args.op = "decode"
    /\ ret = NoReturn
    /\ LET entry == lemma_is_unpack_entry(args.bin, args.packed)
       IN  ret' = [status |-> "decoded", entry |-> entry,
                   pos |-> lemma_is_pos_from_code(entry.posCode)]
    /\ UNCHANGED <<file, lemma_is_bin, loads, args>>

NextDecode == Decode

SpecDecode == InitDecode /\ [][NextDecode]_vars

(* Bit k of a value below 2^31, and the value of its bits lo..hi.          *)
Bit(packed, k) == (packed \div (2 ^ k)) % 2

RECURSIVE Bits(_, _, _)
Bits(packed, lo, hi) ==
    IF hi < lo THEN 0
    ELSE Bit(packed, lo) + 2 * Bits(packed, lo + 1, hi)

(* C13: a version 1 entry decodes to lemma id packed >> 4, code            *)
(* packed & 0xF and case, gender and number 0; a version 2 entry to lemma  *)
(* id packed >> 10, code packed & 0xF, case (packed >> 4) & 7, gender      *)
(* (packed >> 7) & 3 and number (packed >> 9) & 1; a code outside 0..9     *)
(* gives the noun tag; decoding always yields an entry and a tag.          *)
C13_DecodeByVersion ==
    ret # NoReturn =>
        LET packed == args.packed
            entry == ret.entry
        IN  /\ ret.status = "decoded"
            /\ entry.posCode = Bits(packed, 0, 3)
            /\ args.bin.version = 1 =>
                  /\ entry.lemmaIdx = Bits(packed, 4, 30)
                  /\ entry.caseCode = 0
                  /\ entry.genderCode = 0
                  /\ entry.numberCode = 0
            /\ args.bin.version = 2 =>
                  /\ entry.lemmaIdx = Bits(packed, 10, 30)
                  /\ entry.caseCode = Bits(packed, 4, 6)
                  /\ entry.genderCode = Bits(packed, 7, 8)
                  /\ entry.numberCode = Bits(packed, 9, 9)
            /\ entry.posCode \notin 0..9 => ret.pos = "POS_NO"
            /\ ret.pos \in {"POS_NO", "POS_SO", "POS_LO", "POS_AO", "POS_FS",
                            "POS_FN", "POS_ST", "POS_TO", "POS_GR", "POS_UH"}

(* A version 1 entry whose bits 4..9 are all set and whose code is 15.     *)
C13_Witness ==
    /\ ret.status = "decoded"
    /\ args.bin.version = 1
    /\ args.packed = (2 ^ 21 - 1) * 1024 + 1023
    /\ ret.entry.lemmaIdx = 2 ^ 27 - 1
    /\ ret.entry.caseCode = 0
    /\ ret.entry.genderCode = 0
    /\ ret.entry.numberCode = 0
    /\ ret.entry.posCode = 15
    /\ ret.pos = "POS_NO"

(* A version 2 entry with every morphology field at its largest.           *)
C13_Version2Reached ==
    /\ ret.status = "decoded"
    /\ args.bin.version = 2
    /\ ret.entry.lemmaIdx = MaxHighBits
    /\ ret.entry.caseCode = 7
    /\ ret.entry.genderCode = 3
    /\ ret.entry.numberCode = 1
    /\ ret.entry.posCode = 9
    /\ ret.pos = "POS_UH"

----------------------------------------------------------------------------
(* SpecTokenize: icelandic_tokenize_words on every code point sequence     *)
(* within the bounds: two letters ("a", e-acute), the five joiners, a      *)
(* space and a digit.                                                      *)

TokenizerInputs ==
    StringsUpTo({97, 233, 39, 8217, 45, 8211, 8212, 32, 49}, MaxInputLen)

InitTokenize ==
    /\ file = NoFile
    /\ lemma_is_bin = NULL
    /\ loads = 0
    /\ ret = NoReturn
    /\ \E input \in TokenizerInputs : args = [op |-> "tokenize", input |-> input]

Tokenize ==
    /\ args.op = "tokenize"
    /\ ret = NoReturn
    /\ ret' = [status |-> "tokenized",
               tokens |-> icelandic_tokenize_words(args.input)]
    /\ UNCHANGED <<file, lemma_is_bin, loads, args>>

NextTokenize == Tokenize

SpecTokenize == InitTokenize /\ [][NextTokenize]_vars

Letter(wc) == icelandic_is_alpha(wc)

Joiner(wc) == wc \in {39, 8217, 45, 8211, 8212}

(* Place k of the input belongs to a word: a letter, or a joiner with a    *)
(* letter right before and right after it.                                 *)
InWord(input, k) ==
    \/ Letter(input[k])
    \/ /\ Joiner(input[k])
       /\ k > 1
       /\ k < Len(input)
       /\ Letter(input[k - 1])
       /\ Letter(input[k + 1])

(* The maximal runs of word places, as <<first, last>>.                    *)
WordRuns(input) ==
    {r \in (1..Len(input)) \X (1..Len(input)) :
        /\ r[1] <= r[2]
        /\ \A k \in r[1]..r[2] : InWord(input, k)
        /\ r[1] > 1 => ~InWord(input, r[1] - 1)
        /\ r[2] < Len(input) => ~InWord(input, r[2] + 1)}

(* The runs from place from on, in input order.                            *)
RECURSIVE RunsFrom(_, _)
RunsFrom(input, from) ==
    IF \E r \in WordRuns(input) : r[1] >= from
    THEN LET r == CHOOSE x \in WordRuns(input) :
                     /\ x[1] >= from
                     /\ \A y \in WordRuns(input) : y[1] >= from => x[1] <= y[1]
         IN  <<SubSeq(input, r[1], r[2])>> \o RunsFrom(input, r[2] + 1)
    ELSE <<>>

(* C11: the tokenizer returns, in input order, exactly the maximal runs    *)
(* that start with a letter and go on through letters and through a joiner *)
(* that a letter follows at once: every token begins and ends with a       *)
(* letter, every joiner in a token has a letter on both sides, a joiner    *)
(* that no letter follows ends the token outside it, and every other code  *)
(* point gives no token.                                                   *)
C11_TokensAreMaximalWordRuns ==
    ret.status = "tokenized" =>
        LET tokens == ret.tokens
        IN  /\ tokens = RunsFrom(args.input, 1)
            /\ \A i \in 1..Len(tokens) :
                  LET t == tokens[i]
                  IN  /\ Len(t) > 0
                      /\ Letter(t[1])
                      /\ Letter(t[Len(t)])
                      /\ \A k \in 1..Len(t) :
                            \/ Letter(t[k])
                            \/ /\ Joiner(t[k])
                               /\ k > 1 /\ k < Len(t)
                               /\ Letter(t[k - 1]) /\ Letter(t[k + 1])

(* "a-e a-" gives "a-e" and "a": a joiner kept, a joiner left out.         *)
C11_Witness ==
    /\ ret.status = "tokenized"
    /\ Len(args.input) = MaxInputLen
    /\ Len(ret.tokens) = 1
    /\ Len(ret.tokens[1]) = 3
    /\ Joiner(ret.tokens[1][2])
    /\ Joiner(args.input[Len(args.input)])

(* A joiner that a joiner follows ends the token: two tokens around "--".  *)
C11_DoubleJoinerReached ==
    /\ ret.status = "tokenized"
    /\ Len(args.input) = 4
    /\ Joiner(args.input[2])
    /\ Joiner(args.input[3])
    /\ Len(ret.tokens) = 2

----------------------------------------------------------------------------
(* Spec: one backend process answering SQL calls over a data file.         *)

(* A packed entry as the dictionary builder lays it out for a version.     *)
Pack(version, lemmaIdx, posCode, caseCode, genderCode, numberCode) ==
    IF version = 1 THEN lemmaIdx * 16 + posCode
    ELSE lemmaIdx * 1024 + numberCode * 512 + genderCode * 128
            + caseCode * 16 + posCode

RECURSIVE TotalLen(_, _)
TotalLen(strings, i) ==
    IF i > Len(strings) THEN 0 ELSE Len(strings[i]) + TotalLen(strings, i + 1)

(* The file the builder writes for these tables: the header counts are the *)
(* table lengths and the size is the end of the last region.               *)
DictFile(version, lemmas, words, entryOffsets, entries, bigrams) ==
    LET h == [present |-> TRUE, size |-> 0, magic |-> LEMMA_MAGIC,
              version |-> version,
              stringPoolSize |-> TotalLen(lemmas, 1) + TotalLen(words, 1),
              lemmaCount |-> Len(lemmas), wordCount |-> Len(words),
              entryCount |-> Len(entries), bigramCount |-> Len(bigrams),
              lemmas |-> lemmas, words |-> words,
              entryOffsets |-> entryOffsets, entries |-> entries,
              bigrams |-> bigrams]
    IN  [h EXCEPT !.size = IF Len(bigrams) > 0 THEN OffBigramsEnd(h)
                           ELSE OffEntries(h) + 4 * Len(entries)]

Lemmas3 == <<(<<97>>), (<<98>>), (<<97, 98>>)>>     \* "a", "b", "ab"

(* Version 2.  "a": a/NO, b/SO, a/NO again (another case), a/SO;           *)
(* "ab": an empty range; "b": b/NO, ab/LO.                                 *)
DictA ==
    DictFile(2, Lemmas3, <<(<<97>>), (<<97, 98>>), (<<98>>)>>,
        <<0, 4, 4, 6>>,
        <<Pack(2, 0, 0, 1, 1, 0), Pack(2, 1, 1, 0, 0, 0), Pack(2, 0, 0, 2, 1, 1),
          Pack(2, 0, 1, 0, 0, 1), Pack(2, 1, 0, 3, 2, 0), Pack(2, 2, 2, 1, 0, 0)>>,
        <<[w1 |-> <<97>>, w2 |-> <<98>>, freq |-> 3],
          [w1 |-> <<98>>, w2 |-> <<97>>, freq |-> 1],
          [w1 |-> <<98>>, w2 |-> <<98>>, freq |-> 1]>>)

(* Version 1.  "a": a/SO, b with the unknown tag code 12; "b": b/NO.       *)
DictB ==
    DictFile(1, Lemmas3, <<(<<97>>), (<<98>>)>>,
        <<0, 2, 3>>,
        <<Pack(1, 0, 1, 0, 0, 0), Pack(1, 1, 12, 0, 0, 0), Pack(1, 1, 0, 0, 0, 0)>>,
        <<[w1 |-> <<97>>, w2 |-> <<97>>, freq |-> 0],
          [w1 |-> <<98>>, w2 |-> <<97>>, freq |-> 2]>>)

(* Version 2, no bigrams, and entry offsets that go down: the range of "a" *)
(* is 1..0.  The loader checks no table content, so it accepts the file.   *)
DictC ==
    DictFile(2, Lemmas3, <<(<<97>>), (<<98>>)>>,
        <<1, 0, 1>>,
        <<Pack(2, 0, 0, 0, 0, 0)>>,
        <<>>)

(* No words at all.                                                        *)
DictD == DictFile(1, <<>>, <<>>, <<0>>, <<>>, <<>>)

GoodFiles == {DictA, DictB, DictC, DictD}

BadFiles ==
    {NoFile,
     [DictA EXCEPT !.size = 0],
     [DictA EXCEPT !.magic = 0],
     [DictA EXCEPT !.version = 3],
     [DictA EXCEPT !.size = HEADER_SIZE],
     [DictA EXCEPT !.size = OffEntries(DictA)],
     [DictA EXCEPT !.size = DictA.size - 1]}

(* Texts over "a", "b", "A" and the space.                                *)
Texts == StringsUpTo({97, 98, 65, 32}, MaxTextLen)

Init ==
    /\ file \in GoodFiles \cup BadFiles
    /\ lemma_is_bin = NULL
    /\ loads = 0
    /\ args = NoCall
    /\ ret = NoReturn

(* A SQL function as a whole: the load on first use (lines 724-729,        *)
(* 814-819, 937-942), then its body.  An error that ereport(ERROR) raises  *)
(* from the loader ends the call with no result.  loaded tells whether     *)
(* this call ran the loader.                                               *)
SqlCall(op, input, body(_, _)) ==
    /\ ret = NoReturn
    /\ needs_load(lemma_is_bin) => loads < MaxLoads
    /\ LET e == ensure_loaded(lemma_is_bin, file)
       IN  /\ lemma_is_bin' = e.bin
           /\ loads' = IF e.loaded THEN loads + 1 ELSE loads
           /\ ret' = IF e.status # "ok"
                     THEN [status |-> "error", error |-> e.status, loaded |-> e.loaded]
                     ELSE [result |-> body(e.bin[1], input), status |-> "returned",
                           loaded |-> e.loaded]
    /\ args' = [op |-> op, input |-> input]
    /\ UNCHANGED file

icelandic_lexize(input) == SqlCall("icelandic_lexize", input, lexize_body)

icelandic_fts_lemmas(input) == SqlCall("icelandic_fts_lemmas", input, fts_lemmas_body)

icelandic_fts_query(input) == SqlCall("icelandic_fts_query", input, fts_query_body)

(* The backend hands the result to the client and waits for the next call. *)
Return ==
    /\ ret # NoReturn
    /\ args' = NoCall
    /\ ret' = NoReturn
    /\ UNCHANGED <<file, lemma_is_bin, loads>>

Next ==
    \/ \E input \in Texts : icelandic_lexize(input)
    \/ \E input \in Texts : icelandic_fts_lemmas(input)
    \/ \E input \in Texts : icelandic_fts_query(input)
    \/ Return

Spec == Init /\ [][Next]_vars

----------------------------------------------------------------------------
(* Properties of Spec.                                                     *)

Returned == ret.status = "returned"

IsText == Returned /\ args.op \in {"icelandic_fts_lemmas", "icelandic_fts_query"}

IsLexize == Returned /\ args.op = "icelandic_lexize"

InIndex(bin, word) == \E i \in 1..Len(bin.words) : bin.words[i] = word

IdentityCandidate(word) ==
    [lemma |-> lowerstr(word), pos |-> "POS_NO",
     caseCode |-> 0, genderCode |-> 0, numberCode |-> 0]

(* C1: for a word whose lower-cased form is not in the word index,         *)
(* icelandic_lexize returns exactly one lemma, the lower-cased input, and  *)
(* lemma_is_get_candidates returns exactly one candidate with that lemma,  *)
(* the noun tag and zero case, gender and number.                          *)
C1_UnknownWordIdentity ==
    /\ (IsLexize /\ ~InIndex(lemma_is_bin[1], lowerstr(args.input)))
          => ret.result = [status |-> "ok", lemmas |-> <<lowerstr(args.input)>>]
    /\ IsText =>
          \A i \in 1..Len(ret.result.rounds) :
             LET round == ret.result.rounds[i]
             IN  ~InIndex(lemma_is_bin[1], lowerstr(round.token))
                    => round.candidates = <<IdentityCandidate(round.token)>>

C1_Witness ==
    /\ IsLexize
    /\ ~InIndex(lemma_is_bin[1], lowerstr(args.input))
    /\ lemma_is_bin[1].wordCount > 0
    /\ lowerstr(args.input) # args.input
    /\ ret.result.lemmas = <<lowerstr(args.input)>>

(* C2: on a dictionary that the loader accepted no lookup fails or comes   *)
(* back empty: icelandic_lexize returns a non-empty lemma list and every   *)
(* token gets a non-empty candidate list, the identity fallback when the   *)
(* word's entry range yields no candidate.                                 *)
C2_NoLookupComesBackEmpty ==
    /\ IsLexize => (ret.result.status = "ok" /\ Len(ret.result.lemmas) > 0)
    /\ IsText =>
          \A i \in 1..Len(ret.result.rounds) :
             Len(ret.result.rounds[i].candidates) > 0

(* Every check the format asks of a file: present and not empty, the       *)
(* magic, a version of 1 or 2, every region inside the buffer.             *)
PassedLoadChecks(f) ==
    /\ f.present
    /\ f.size > 0
    /\ f.magic = LEMMA_MAGIC
    /\ f.version \in {1, 2}
    /\ \A e \in RegionEnds(f) : e <= f.size

(* C3: a call whose load fails returns the error and no result and leaves  *)
(* lemma_is_bin unset; a file that fails a check is never loaded; and a    *)
(* set lemma_is_bin holds the tables of a file that passed every check.    *)
C3_FailedLoadLeavesHandleUnset ==
    /\ ret.status = "error" => (lemma_is_bin = NULL /\ DOMAIN ret = {"status", "error", "loaded"})
    /\ (~PassedLoadChecks(file) /\ ret # NoReturn) => ret.status = "error"
    /\ lemma_is_bin # NULL =>
          /\ PassedLoadChecks(file)
          /\ lemma_is_bin[1].version = file.version
          /\ lemma_is_bin[1].words = file.words
          /\ lemma_is_bin[1].entries = file.entries

C3_Witness ==
    /\ ret.status = "error"
    /\ ret.error = "unsupported binary version"
    /\ loads = MaxLoads
    /\ lemma_is_bin = NULL

(* C5 as claimed: the loader runs at most once in a backend's life.        *)
C5_LoadRunsAtMostOnce == loads <= 1

(* C5 as amended: a call loads exactly when lemma_is_bin is unset, and     *)
(* once a load has succeeded no later call loads again or changes the      *)
(* handle.                                                                 *)
C5_LoadedOnceThenCached ==
    [][/\ lemma_is_bin # NULL => (loads' = loads /\ lemma_is_bin' = lemma_is_bin)
       /\ (lemma_is_bin = NULL /\ ret = NoReturn /\ ret' # NoReturn)
             => loads' = loads + 1]_vars

C5_Witness ==
    /\ Returned
    /\ ~ret.loaded
    /\ loads = 1
    /\ lemma_is_bin # NULL

(* The rounds of the token loop of a returned text call.                   *)
Rounds == ret.result.rounds

CandidateLemmas(round) ==
    [j \in 1..Len(round.candidates) |-> round.candidates[j].lemma]

(* seq without the elements that occurred earlier in it.                   *)
RECURSIVE FirstOccurrencesFrom(_, _, _)
FirstOccurrencesFrom(seq, i, acc) ==
    IF i > Len(seq) THEN acc
    ELSE FirstOccurrencesFrom(seq, i + 1,
            IF seq[i] \in Elements(acc) THEN acc ELSE Append(acc, seq[i]))

FirstOccurrences(seq) == FirstOccurrencesFrom(seq, 1, <<>>)

(* The lemmas a round removed from the token's distinct candidate lemmas.  *)
Removed(round) == Elements(CandidateLemmas(round)) \ Elements(round.token_lemmas)

(* C8: a token whose disambiguation did not use a bigram has no stopword   *)
(* list consulted and keeps every distinct candidate lemma; a token whose  *)
(* disambiguation used a bigram loses at most the disambiguated lemma, and *)
(* only when that lemma is a stopword under the disambiguated tag. Both    *)
(* icelandic_fts_lemmas and icelandic_fts_query.                           *)
C8_OnlyDisambiguatedLemmaFiltered ==
    IsText =>
        \A i \in 1..Len(Rounds) :
            LET round == Rounds[i]
                d == round.disambig
            IN  /\ Elements(round.token_lemmas) \subseteq Elements(CandidateLemmas(round))
                /\ ~d.by_bigram => (~round.consulted /\ Removed(round) = {})
                /\ d.by_bigram =>
                      /\ Removed(round) \subseteq {d.lemma[1]}
                      /\ Removed(round) # {} =>
                            lemma_is_contextual_stopword(d.lemma[1], d.pos)

C8_Witness ==
    /\ IsText
    /\ args.op = "icelandic_fts_query"
    /\ \E i \in 1..Len(Rounds) :
          /\ Rounds[i].disambig.by_bigram
          /\ Removed(Rounds[i]) = {Rounds[i].disambig.lemma[1]}
          /\ Rounds[i].token_lemmas # <<>>
    /\ \E i \in 1..Len(Rounds) :
          /\ Rounds[i].disambig.by_bigram
          /\ Rounds[i].consulted
          /\ Removed(Rounds[i]) = {}
          /\ Len(Rounds[i].token_lemmas) > 1

(* A token without bigram evidence keeps several lemmas, one of them a     *)
(* stopword.                                                               *)
C8_UnfilteredReached ==
    /\ IsText
    /\ \E i \in 1..Len(Rounds) :
          /\ ~Rounds[i].disambig.by_bigram
          /\ Len(Rounds[i].token_lemmas) > 1
          /\ \E k \in 1..Len(Rounds[i].token_lemmas) :
                lemma_is_stopword_simple(Rounds[i].token_lemmas[k])

RECURSIVE JoinFrom(_, _, _)
JoinFrom(parts, sep, i) ==
    IF i > Len(parts) THEN <<>>
    ELSE IF i = Len(parts) THEN parts[i]
    ELSE parts[i] \o sep \o JoinFrom(parts, sep, i + 1)

Join(parts, sep) == JoinFrom(parts, sep, 1)

(* One conjunct of the query: bare, or "(l1 | l2 | ...)".                  *)
Conjunct(ls) ==
    IF Len(ls) = 1 THEN ls[1] ELSE <<40>> \o Join(ls, <<32, 124, 32>>) \o <<41>>

NonEmptyRounds == SelectSeq(Rounds, LAMBDA round : Len(round.token_lemmas) > 0)

(* The surviving lemmas of a round are its candidate lemmas that were not  *)
(* removed, each once, in first-seen order.                                *)
SurvivorsInCandidateOrder(round) ==
    round.token_lemmas =
        FirstOccurrences(SelectSeq(CandidateLemmas(round),
                                   LAMBDA l : l \notin Removed(round)))

(* C9: icelandic_fts_query returns one conjunct per token that has a       *)
(* surviving lemma, in token order, none for a token with no lemma left,   *)
(* conjuncts joined by " & ", a single lemma bare and several lemmas as    *)
(* "(l1 | l2 | ...)" in first-seen order without duplicates; with no       *)
(* conjunct the result is the empty string, not an error.                  *)
C9_QueryFormat ==
    (Returned /\ args.op = "icelandic_fts_query") =>
        /\ ret.result.status = "ok"
        /\ \A i \in 1..Len(Rounds) : SurvivorsInCandidateOrder(Rounds[i])
        /\ ret.result.query =
              Join([i \in 1..Len(NonEmptyRounds) |->
                       Conjunct(NonEmptyRounds[i].token_lemmas)],
                   <<32, 38, 32>>)
        /\ NonEmptyRounds = <<>> => ret.result.query = <<>>

(* "(a | b) & ab": a group of two lemmas and a bare lemma.                 *)
C9_Witness ==
    /\ Returned
    /\ args.op = "icelandic_fts_query"
    /\ ret.result.query = <<40, 97, 32, 124, 32, 98, 41, 32, 38, 32, 97, 98>>

(* A token that filtered down to no lemma contributes nothing.             *)
C9_SkippedTokenReached ==
    /\ Returned
    /\ args.op = "icelandic_fts_query"
    /\ Len(Rounds) = 2
    /\ Len(Rounds[1].candidates) > 0
    /\ Rounds[1].token_lemmas = <<>>
    /\ ret.result.query = Rounds[2].token_lemmas[1]

RECURSIVE FlattenFrom(_, _)
FlattenFrom(rounds, i) ==
    IF i > Len(rounds) THEN <<>>
    ELSE rounds[i].token_lemmas \o FlattenFrom(rounds, i + 1)

(* Every surviving lemma of every token, by token then candidate order.    *)
AllSurvivors == FlattenFrom(Rounds, 1)

(* The array icelandic_fts_lemmas returned; SQL NULL holds no lemma.       *)
ReturnedLemmas == IF ret.result.status = "ok" THEN ret.result.lemmas ELSE <<>>

(* C10: icelandic_fts_lemmas returns the surviving lemmas of all tokens    *)
(* without duplicates, none missing, ordered by first occurrence (token    *)
(* order, then candidate order).                                           *)
C10_DedupInInsertionOrder ==
    (Returned /\ args.op = "icelandic_fts_lemmas") =>
        LET L == ReturnedLemmas
        IN  /\ \A i, j \in 1..Len(L) : i # j => L[i] # L[j]
            /\ Elements(L) = Elements(AllSurvivors)
            /\ \A i \in 1..Len(Rounds) : SurvivorsInCandidateOrder(Rounds[i])
            /\ L = FirstOccurrences(AllSurvivors)
            /\ ret.result.status = "null" <=> AllSurvivors = <<>>

C10_Witness ==
    /\ Returned
    /\ args.op = "icelandic_fts_lemmas"
    /\ ret.result.status = "ok"
    /\ Len(ret.result.lemmas) > 1
    /\ Len(AllSurvivors) > Len(ret.result.lemmas)
    /\ AllSurvivors[1] # AllSurvivors[2]
    /\ AllSurvivors[3] = AllSurvivors[1]

====
